---- MODULE Spec2Model ----
(***************************************************************************)
(* Symmetric NAT port allocator of NATSimTools (src/simulation.py):        *)
(* SymmetricNat with its two port selection policies                       *)
(* (SymmetricIncrementalNat, SymmetricRandomNat).                          *)
(*                                                                         *)
(* A NAT instance is the record                                            *)
(*   [allocations, allocatedPorts, expireHeap, lastPort]                   *)
(* held in the variables of the same names.  Every method is an operator   *)
(* from a NAT record to the set of outcomes the method can produce (the    *)
(* Random policy and the 1:100 housekeeping draw make it a set), and an    *)
(* action that applies one of them.                                        *)
(*                                                                         *)
(* NatSimulation.simulation, the sweep of traversal rounds run on two      *)
(* such NATs, is held in the variable sim and followed by SpecSim, by      *)
(* SpecSimple (SimpleStrategy) and by SpecScan (I2JStragegy without        *)
(* noise).  The pool's length is the variable poolLen: SpecWide makes the  *)
(* NAT's calls on a pool of three ports.  SpecTwin gives a second NAT,     *)
(* held in twin, the calls the first one is given.                         *)
(***************************************************************************)
EXTENDS Integers, Sequences, FiniteSets, TLC

\* ---------------------------------------------------------------- constants

\* Nat.timeout: lifetime of an allocation in milliseconds
Timeout == 180000

\* first port of the pool, list(range(1025, 65536))
FirstPort == 1025

\* number of ports of the pool (65535 - 1025 + 1 in the program): the least
\* pool that wraps, a pool where a probe can pass a port in use and still end
\* on a free one, and a pool that holds the ports of a four-step scan
NarrowPool == 2
WidePool == 3
ScanPool == 5

\* the calls' time arguments are multiples of TimeStep up to MaxTick steps
MaxTick == 3

\* number of calls made on the NAT that the model follows
MaxCalls == 3

\* largest num passed to occupy()
MaxOccupy == 2

\* a record is compared with timeNow by (lastAccess + timeout) < timeNow only:
\* steps of one timeout give the ages 0 and timeout (in use) and more (expired)
TimeStep == Timeout

Times == {k * TimeStep : k \in 0..MaxTick}

\* Python's None (a quartet-less record, an absent argument)
None == <<>>

VARIABLES
  allocations,     \* quartet -> external port
  allocatedPorts,  \* port -> <<quartet or None, last access time>>
  expireHeap,      \* heap of <<time, port, quartet or None>>, least first
  lastPort,        \* SymmetricIncrementalNat.lastPort: index into pool
  policy,          \* which subclass the instance is
  clock,           \* simulated time: the timeNow the calls are made with
  last,            \* the latest call: its arguments, branch taken and result
  calls,           \* number of calls made so far
  seen,            \* number of distinct quartets used since init/reset
  fresh,           \* the run of first allocations made on a fresh NAT
  sim,             \* NatSimulation.simulation: the sweep of rounds on two NATs
  poolLen,         \* SymmetricNat.poolLen of the instances
  twin,            \* a second NAT that is given the same calls
  strat            \* strategy instances: what reset(), silent() and next() are called on

\* self.poolLen = len(self.pool)
PoolLen == poolLen

\* self.pool, indexed from 0 as in the program
pool == [i \in 0..(PoolLen - 1) |-> FirstPort + i]

Pool == {pool[i] : i \in DOMAIN pool}

Quartet(srcIP, srcPort, dstIP, dstPort) == <<srcIP, srcPort, dstIP, dstPort>>

\* the flows the calls are made for
Quartets == {Quartet(0, sp, 1, 900) : sp \in 0..(PoolLen - 1)}

natVars == <<allocations, allocatedPorts, expireHeap, lastPort>>

vars == <<allocations, allocatedPorts, expireHeap, lastPort, policy, clock, last,
          calls, seen, fresh, sim, poolLen, twin, strat>>

\* ------------------------------------------------------------ dict helpers

\* del d[k]
Del(d, k) == [x \in (DOMAIN d) \ {k} |-> d[x]]

\* d[k] = v
Put(d, k, v) == [x \in (DOMAIN d) \cup {k} |-> IF x = k THEN v ELSE d[x]]

EmptyDict == [x \in {} |-> 0]

\* ---------------------------------------------------------------- the NAT

NatState == [allocations |-> allocations, allocatedPorts |-> allocatedPorts,
             expireHeap |-> expireHeap, lastPort |-> lastPort]

\* SymmetricNat.init / SymmetricIncrementalNat class attribute lastPort = 0
InitNat == [allocations |-> EmptyDict, allocatedPorts |-> EmptyDict,
            expireHeap |-> <<>>, lastPort |-> 0]

\* mutant: only the base class reset runs, the cursor stays where it was
ResetNatBaseOnly(st, pol) ==
  [st EXCEPT !.allocations = EmptyDict,
             !.allocatedPorts = EmptyDict,
             !.expireHeap = <<>>]

\* SymmetricNat.reset, and SymmetricIncrementalNat.reset on top of it
ResetNat(st, pol) ==
  [st EXCEPT !.allocations = EmptyDict,
             !.allocatedPorts = EmptyDict,
             !.expireHeap = <<>>,
             !.lastPort = IF pol = "Incremental" THEN 0 ELSE @]

\* mutant: a record is dropped already at the age of one timeout
ExpiredAtTimeout(lastAccess, timeNow) == (lastAccess + Timeout) <= timeNow

\* (tup[1] + self.timeout) < timeNow
Expired(lastAccess, timeNow) == (lastAccess + Timeout) < timeNow

\* peekPort(prev): the <<port, prev>> pairs one probe can return.
\* prev is <<>> for None and <<index>> otherwise.
PeekPort(pol, st, prev) ==
  IF pol = "Incremental"
  THEN LET p   == IF prev = None THEN st.lastPort ELSE prev[1]
           tmp == (p + 1) % PoolLen
       IN  {<<pool[tmp], <<tmp>> >>}
  ELSE {<<pool[i], None>> : i \in 0..(PoolLen - 1)}

\* mutant: nextPort() that does not move the cursor
NextPortStuck(pol, st) == st

\* nextPort(): the state after the call (the Random policy keeps no cursor)
NextPort(pol, st) ==
  IF pol = "Incremental"
  THEN [st EXCEPT !.lastPort = (@ + 1) % PoolLen]
  ELSE st

\* for i in range(0, tries): self.nextPort()
RECURSIVE MoveIterator(_, _, _)
MoveIterator(pol, st, tries) ==
  IF tries = 0 THEN st ELSE MoveIterator(pol, NextPort(pol, st), tries - 1)

\* mutant: the eviction forgets the allocation table
EvictPortKeepsTable(st, port) ==
  [st EXCEPT !.allocatedPorts = Del(@, port)]

\* nextFreePort lines 258-260: drop an expired record and its table entry
EvictPort(st, port) ==
  LET tup == st.allocatedPorts[port]
  IN  [st EXCEPT !.allocations = IF tup[1] # None THEN Del(@, tup[1]) ELSE @,
                 !.allocatedPorts = Del(@, port)]

\* mutant: the probe loop goes round once more
LoopOneMore(tries) == tries <= PoolLen + 1

\* the probe loop keeps going: while tries <= self.poolLen
LoopGoesOn(tries) == tries <= PoolLen

\* nextFreePort's while loop, entered with the loop condition true:
\* the set of <<tries, port, state>> it can end with
RECURSIVE ProbeLoop(_, _, _, _, _)
ProbeLoop(pol, st, timeNow, tries, prev) ==
  LET cands  == PeekPort(pol, st, prev)
      tries1 == tries + 1
      Held(pp)  == pp[1] \in DOMAIN st.allocatedPorts
      InUse(pp) == Held(pp) /\ ~Expired(st.allocatedPorts[pp[1]][2], timeNow)
      \* break: the slot is free, or expired and evicted
      broke  == {[tries |-> tries1, port |-> pp[1],
                  st |-> IF Held(pp) THEN EvictPort(st, pp[1]) ELSE st]
                   : pp \in {c \in cands : ~InUse(c)}}
      \* continue: the slot is in use
      busy   == {pp \in cands : InUse(pp)}
      onward == IF LoopGoesOn(tries1)
                THEN UNION {ProbeLoop(pol, st, timeNow, tries1, pv) : pv \in {pp[2] : pp \in busy}}
                ELSE {[tries |-> tries1, port |-> pp[1], st |-> st] : pp \in busy}
  IN  broke \cup onward

\* mutant: the exhaustion check compares with a bound the loop never exceeds
PoolExhaustedLate(tries, port) == tries > PoolLen + 1 \/ port = -1

\* if tries >= self.poolLen or port==-1: raise
PoolExhausted(tries, port) == tries >= PoolLen \/ port = -1

\* mutant: nextFreePort that moves the iterator also when peeking
NextFreePortMoves(pol, st, timeNow, peek) ==
  {IF PoolExhausted(o.tries, o.port)
   THEN [raised |-> TRUE, port |-> -1, st |-> o.st]
   ELSE [raised |-> FALSE, port |-> o.port, st |-> MoveIterator(pol, o.st, o.tries)]
     : o \in ProbeLoop(pol, st, timeNow, 0, None)}

\* nextFreePort(timeNow, peek): the set of [raised, port, st] outcomes
NextFreePort(pol, st, timeNow, peek) ==
  {IF PoolExhausted(o.tries, o.port)
   THEN [raised |-> TRUE, port |-> -1, st |-> o.st]
   ELSE [raised |-> FALSE, port |-> o.port,
         st |-> IF peek = FALSE THEN MoveIterator(pol, o.st, o.tries) ELSE o.st]
     : o \in ProbeLoop(pol, st, timeNow, 0, None)}

\* tuple order of the heap entries' first two fields (time, port)
EntryBefore(a, b) == a[1] < b[1] \/ (a[1] = b[1] /\ a[2] < b[2])

\* heappush: the heap is kept as the sequence heappop would return
RECURSIVE HeapPush(_, _)
HeapPush(heap, e) ==
  IF heap = <<>> THEN <<e>>
  ELSE IF EntryBefore(e, Head(heap)) THEN <<e>> \o heap
       ELSE <<Head(heap)>> \o HeapPush(Tail(heap), e)

\* cleanHeap line 330: the least entry is not expired
HeapMinLive(cur, timeNow) == (cur + Timeout) >= timeNow

\* mutant: any entry of a port that holds a record counts as current
EntryMatchesPort(st, cur, port, q) == port \in DOMAIN st.allocatedPorts

\* cleanHeap lines 333-335: the popped entry is the port's current record
EntryMatches(st, cur, port, q) ==
  /\ port \in DOMAIN st.allocatedPorts
  /\ cur = st.allocatedPorts[port][2]
  /\ q = st.allocatedPorts[port][1]

\* mutant: the housekeeping pass drops every record, expired or not
CleanHeapAll(st, timeNow) ==
  [st EXCEPT !.allocations = EmptyDict, !.allocatedPorts = EmptyDict, !.expireHeap = <<>>]

RECURSIVE CleanHeap(_, _)
CleanHeap(st, timeNow) ==
  IF Len(st.expireHeap) = 0 THEN st
  ELSE LET cur  == st.expireHeap[1][1]
           port == st.expireHeap[1][2]
           q    == st.expireHeap[1][3]
       IN  IF HeapMinLive(cur, timeNow) THEN st
           ELSE LET st1 == IF EntryMatches(st, cur, port, q)
                           THEN [st EXCEPT !.allocations = IF q # None THEN Del(@, q) ELSE @,
                                           !.allocatedPorts = Del(@, port)]
                           ELSE st
                IN  CleanHeap([st1 EXCEPT !.expireHeap = Tail(@)], timeNow)

FreePorts(st) == PoolLen - Cardinality(DOMAIN st.allocatedPorts)

TrulyFreePorts(st, timeNow) ==
  LET st1 == CleanHeap(st, timeNow)
  IN  [ret |-> FreePorts(st1), st |-> st1]

\* alloc line 291: update last query access
Refresh(st, port, q, timeAdd) ==
  [st EXCEPT !.allocatedPorts = Put(@, port, <<q, timeAdd>>)]

\* mutant: the expired quartet leaves the table but keeps its port record
DropMappingTableOnly(st, port, q) ==
  [st EXCEPT !.allocations = Del(@, q)]

\* alloc lines 288-289: the quartet's record is too old
DropMapping(st, port, q) ==
  [st EXCEPT !.allocatedPorts = Del(@, port), !.allocations = Del(@, q)]

\* alloc lines 302-305: record the new allocation and push it to the heap
Record(st, port, q, timeAdd) ==
  [st EXCEPT !.allocatedPorts = Put(@, port, <<q, timeAdd>>),
             !.allocations = Put(@, q, port),
             !.expireHeap = HeapPush(@, <<timeAdd, port, q>>)]

\* mutant: the refreshOnly flag is ignored
ReturnsEarlyNever(refreshOnly) == FALSE

\* alloc line 296: if refreshOnly: return -1
ReturnsEarly(refreshOnly) == refreshOnly

\* alloc(): the set of [ret, raised, path, st] outcomes.  timeAdd is <<>> for
\* the default None; housekeeping is the draw random.randint(0, 100) == 0.
Alloc(pol, st, q, timeNow, timeAddArg, refreshOnly, housekeeping) ==
  LET timeAdd == IF timeAddArg = None THEN timeNow ELSE timeAddArg[1]
      mapped  == q \in DOMAIN st.allocations
      port0   == st.allocations[q]
      stale   == mapped /\ Expired(st.allocatedPorts[port0][2], timeNow)
      st1     == IF stale THEN DropMapping(st, port0, q) ELSE st
  IN  IF mapped /\ ~stale
      THEN {[ret |-> port0, raised |-> FALSE, path |-> "refresh",
             st |-> Refresh(st, port0, q, timeAdd)]}
      ELSE IF ReturnsEarly(refreshOnly)
      THEN {[ret |-> -1, raised |-> FALSE,
             path |-> IF stale THEN "expired-refreshOnly" ELSE "refreshOnly",
             st |-> st1]}
      ELSE {IF o.raised
            THEN [ret |-> -1, raised |-> TRUE,
                  path |-> IF stale THEN "expired-new" ELSE "new", st |-> o.st]
            ELSE LET st2 == Record(o.st, o.port, q, timeAdd)
                 IN  [ret |-> o.port, raised |-> FALSE,
                      path |-> IF stale THEN "expired-new" ELSE "new",
                      st |-> IF housekeeping THEN CleanHeap(st2, timeNow) ELSE st2]
              : o \in NextFreePort(pol, st1, timeNow, FALSE)}

\* mutant: the anonymous allocation reaches the heap but not the records
OccupyOneHeapOnly(st, port, timeNow) ==
  [st EXCEPT !.expireHeap = HeapPush(@, <<timeNow, port, None>>)]

\* occupy lines 316-318: one anonymous allocation
OccupyOne(st, port, timeNow) ==
  [st EXCEPT !.allocatedPorts = Put(@, port, <<None, timeNow>>),
             !.expireHeap = HeapPush(@, <<timeNow, port, None>>)]

\* occupy's for loop with num rounds left; got is the ports assigned so far
RECURSIVE OccupyLoop(_, _, _, _, _)
OccupyLoop(pol, st, num, timeNow, got) ==
  IF num = 0 THEN {[ret |-> 1, raised |-> FALSE, st |-> st, ports |-> got]}
  ELSE UNION {IF o.raised
              THEN {[ret |-> -1, raised |-> TRUE, st |-> o.st, ports |-> got]}
              ELSE OccupyLoop(pol, OccupyOne(o.st, o.port, timeNow), num - 1, timeNow,
                              Append(got, o.port))
                : o \in NextFreePort(pol, st, timeNow, FALSE)}

\* occupy(num, timeNow): the set of [ret, raised, st, ports] outcomes
Occupy(pol, st, num, timeNow) == OccupyLoop(pol, st, num, timeNow, <<>>)

\* ------------------------------------------------------------ the actions

SetNat(st) ==
  /\ allocations' = st.allocations
  /\ allocatedPorts' = st.allocatedPorts
  /\ expireHeap' = st.expireHeap
  /\ lastPort' = st.lastPort

\* what is kept of a call: the method, its arguments (timeAdd resolved), the
\* branch alloc() took, whether it raised, and the value returned; peeked is
\* <<raised, port>> of a peekNext(timeNow) made just before an alloc(), else
\* None; ports is the ports the call took from nextFreePort, in order
Call(op, q, timeNow, timeAdd, refreshOnly, num, path, raised, ret) ==
  [op |-> op, q |-> q, now |-> timeNow, lastSeen |-> timeAdd,
   refreshOnly |-> refreshOnly, num |-> num, path |-> path,
   raised |-> raised, ret |-> ret, peeked |-> None, ports |-> <<>>]

\* the result of the call before this one, when that was peekNext(timeNow)
Peeked(timeNow) ==
  IF last.op = "peekNext" /\ last.now = timeNow THEN <<last.raised, last.ret>> ELSE None

NoFresh == [qs |-> <<>>, ports |-> <<>>]

\* no sweep is running
NoSim == [pc |-> "off"]

\* no second NAT is followed
NoTwin == [on |-> FALSE]

\* no strategy instance is followed on its own
NoStrat == [on |-> FALSE]

\* natA = SymmetricIncrementalNat(); natA.init(None)
Init ==
  /\ policy = "Incremental"
  /\ allocations = InitNat.allocations
  /\ allocatedPorts = InitNat.allocatedPorts
  /\ expireHeap = InitNat.expireHeap
  /\ lastPort = InitNat.lastPort
  /\ clock = 0
  /\ last = Call("init", None, 0, 0, FALSE, 0, "", FALSE, 0)
  /\ calls = 0
  /\ seen = 0
  /\ fresh = NoFresh
  /\ sim = NoSim
  /\ poolLen = NarrowPool
  /\ twin = NoTwin
  /\ strat = NoStrat

\* the lastSeen arguments a call at timeNow is made with: absent (None), or
\* one step later than timeNow
TimeAdds(timeNow) == {None} \cup {<<t>> : t \in {timeNow + TimeStep} \cap Times}

\* Quartets are only compared for equality: a new flow is the least unused one
Known(q) == q[2] <= seen

Counted == calls < MaxCalls /\ calls' = calls + 1

\* simulated time passes between two calls
Advance ==
  /\ clock + TimeStep \in Times
  /\ clock' = clock + TimeStep
  /\ UNCHANGED <<natVars, policy, last, calls, seen, fresh, sim, poolLen, twin, strat>>

AllocCall ==
  \E q \in {x \in Quartets : Known(x)}, refreshOnly \in BOOLEAN, housekeeping \in BOOLEAN :
  \E timeAddArg \in TimeAdds(clock) :
  \E o \in Alloc(policy, NatState, q, clock, timeAddArg, refreshOnly, housekeeping) :
    /\ Counted
    /\ SetNat(o.st)
    /\ last' = [Call("alloc", q, clock, IF timeAddArg = None THEN clock ELSE timeAddArg[1],
                     refreshOnly, 0, o.path, o.raised, o.ret)
                  EXCEPT !.peeked = Peeked(clock),
                         !.ports = IF o.path \in {"new", "expired-new"} /\ ~o.raised
                                   THEN <<o.ret>> ELSE <<>>]
    /\ seen' = IF q[2] = seen THEN seen + 1 ELSE seen
    /\ UNCHANGED <<policy, clock, fresh, sim, poolLen, twin, strat>>

OccupyCall ==
  \E num \in 0..MaxOccupy :
  \E o \in Occupy(policy, NatState, num, clock) :
    /\ Counted
    /\ SetNat(o.st)
    /\ last' = [Call("occupy", None, clock, clock, FALSE, num, "", o.raised, o.ret)
                  EXCEPT !.ports = o.ports]
    /\ UNCHANGED <<policy, clock, seen, fresh, sim, poolLen, twin, strat>>

PeekNextCall ==
  \E o \in NextFreePort(policy, NatState, clock, TRUE) :
    /\ Counted
    /\ SetNat(o.st)
    /\ last' = Call("peekNext", None, clock, clock, FALSE, 0, "", o.raised, o.port)
    /\ UNCHANGED <<policy, clock, seen, fresh, sim, poolLen, twin, strat>>

TrulyFreePortsCall ==
  LET o == TrulyFreePorts(NatState, clock)
  IN  /\ Counted
      /\ SetNat(o.st)
      /\ last' = Call("trulyFreePorts", None, clock, clock, FALSE, 0, "", FALSE, o.ret)
      /\ UNCHANGED <<policy, clock, seen, fresh, sim, poolLen, twin, strat>>

\* reset() starts a new round: simulated time starts again from 0.  The call
\* record keeps what the reset found: num is the number of port records and
\* ret the cursor position before the call.
ResetCall ==
  /\ Counted
  /\ SetNat(ResetNat(NatState, policy))
  /\ clock' = 0
  /\ last' = Call("reset", None, 0, 0, FALSE, Cardinality(DOMAIN allocatedPorts), "",
                  FALSE, lastPort)
  /\ seen' = 0
  /\ UNCHANGED <<policy, fresh, sim, poolLen, twin, strat>>

Next ==
  \/ Advance
  \/ AllocCall
  \/ OccupyCall
  \/ PeekNextCall
  \/ TrulyFreePortsCall
  \/ ResetCall

Spec == Init /\ [][Next]_vars

\* ------------------------------------------- first allocations on a fresh NAT

\* timestamps of the first allocations: 3 * PoolLen + 1 instants, all within
\* one timeout of the first
FreshStep == Timeout \div (3 * PoolLen)

FreshTimes == {k * FreshStep : k \in 0..(3 * PoolLen)}

\* alloc() of a quartet not used before, at a later instant than the previous
\* call, on a NAT that has seen nothing but such calls since init()
FreshAlloc ==
  \E q \in Quartets, timeNow \in FreshTimes, housekeeping \in BOOLEAN :
  \E timeAddArg \in {None, <<timeNow + FreshStep>>} :
  \E o \in Alloc(policy, NatState, q, timeNow, timeAddArg, FALSE, housekeeping) :
    /\ Len(fresh.qs) < PoolLen
    /\ \A i \in 1..Len(fresh.qs) : fresh.qs[i] # q
    /\ fresh.qs = <<>> \/ timeNow > clock
    /\ SetNat(o.st)
    /\ clock' = timeNow
    /\ last' = Call("alloc", q, timeNow, IF timeAddArg = None THEN timeNow ELSE timeAddArg[1],
                    FALSE, 0, o.path, o.raised, o.ret)
    /\ fresh' = [qs |-> Append(fresh.qs, q),
                 ports |-> Append(fresh.ports, IF o.raised THEN -1 ELSE o.ret)]
    /\ UNCHANGED <<policy, calls, seen, sim, poolLen, twin, strat>>

SpecFresh == Init /\ [][FreshAlloc]_vars

\* the same calls on a SymmetricRandomNat
InitRandom ==
  /\ policy = "Random"
  /\ allocations = InitNat.allocations
  /\ allocatedPorts = InitNat.allocatedPorts
  /\ expireHeap = InitNat.expireHeap
  /\ lastPort = InitNat.lastPort
  /\ clock = 0
  /\ last = Call("init", None, 0, 0, FALSE, 0, "", FALSE, 0)
  /\ calls = 0
  /\ seen = 0
  /\ fresh = NoFresh
  /\ sim = NoSim
  /\ poolLen = NarrowPool
  /\ twin = NoTwin
  /\ strat = NoStrat

SpecRandom == InitRandom /\ [][Next]_vars

\* ------------------------------------------------------- a pool of three

\* natA = SymmetricIncrementalNat(); natA.init(None), on a pool in which a
\* probe can pass a port in use and end on a later one
WideInit ==
  /\ policy = "Incremental"
  /\ allocations = InitNat.allocations
  /\ allocatedPorts = InitNat.allocatedPorts
  /\ expireHeap = InitNat.expireHeap
  /\ lastPort = InitNat.lastPort
  /\ clock = 0
  /\ last = Call("init", None, 0, 0, FALSE, 0, "", FALSE, 0)
  /\ calls = 0
  /\ seen = 0
  /\ fresh = NoFresh
  /\ sim = NoSim
  /\ poolLen = WidePool
  /\ twin = NoTwin
  /\ strat = NoStrat

SpecWide == WideInit /\ [][Next]_vars

\* ------------------------------------------------- two NATs, the same calls

\* natA and natB of main(), both SymmetricIncrementalNat, before any call;
\* the second NAT's latest result is kept beside it, and whether the two NATs'
\* port records differed when the latest call was made
TwinInit ==
  /\ policy = "Incremental"
  /\ allocations = InitNat.allocations
  /\ allocatedPorts = InitNat.allocatedPorts
  /\ expireHeap = InitNat.expireHeap
  /\ lastPort = InitNat.lastPort
  /\ clock = 0
  /\ last = Call("init", None, 0, 0, FALSE, 0, "", FALSE, 0)
  /\ calls = 0
  /\ seen = 0
  /\ fresh = NoFresh
  /\ sim = NoSim
  /\ poolLen = NarrowPool
  /\ twin = [on |-> TRUE, nat |-> InitNat, raised |-> FALSE, ret |-> 0, ports |-> <<>>,
             differed |-> FALSE]
  /\ strat = NoStrat

Differ == allocatedPorts # twin.nat.allocatedPorts

\* the same alloc() on both NATs, made as the sweep makes it, without a
\* timeAdd; the first NAT's 1:100 draw for cleanHeap falls either way at every
\* call, the second NAT's draw never hits
TwinAllocCall ==
  \E q \in {x \in Quartets : Known(x)}, refreshOnly \in BOOLEAN, housekeeping \in BOOLEAN :
  \E timeAddArg \in {None} :
  \E o \in Alloc(policy, NatState, q, clock, timeAddArg, refreshOnly, housekeeping),
     t \in Alloc(policy, twin.nat, q, clock, timeAddArg, refreshOnly, FALSE) :
    /\ Counted
    /\ SetNat(o.st)
    /\ last' = [Call("alloc", q, clock, IF timeAddArg = None THEN clock ELSE timeAddArg[1],
                     refreshOnly, 0, o.path, o.raised, o.ret)
                  EXCEPT !.ports = IF o.path \in {"new", "expired-new"} /\ ~o.raised
                                   THEN <<o.ret>> ELSE <<>>]
    /\ twin' = [twin EXCEPT !.nat = t.st, !.raised = t.raised, !.ret = t.ret,
                            !.ports = IF t.path \in {"new", "expired-new"} /\ ~t.raised
                                      THEN <<t.ret>> ELSE <<>>,
                            !.differed = Differ]
    /\ seen' = IF q[2] = seen THEN seen + 1 ELSE seen
    /\ UNCHANGED <<policy, clock, fresh, sim, poolLen, strat>>

\* the same occupy() on both NATs
TwinOccupyCall ==
  \E num \in 0..MaxOccupy :
  \E o \in Occupy(policy, NatState, num, clock), t \in Occupy(policy, twin.nat, num, clock) :
    /\ Counted
    /\ SetNat(o.st)
    /\ last' = [Call("occupy", None, clock, clock, FALSE, num, "", o.raised, o.ret)
                  EXCEPT !.ports = o.ports]
    /\ twin' = [twin EXCEPT !.nat = t.st, !.raised = t.raised, !.ret = t.ret,
                            !.ports = t.ports, !.differed = Differ]
    /\ UNCHANGED <<policy, clock, seen, fresh, sim, poolLen, strat>>

\* the same peekNext() on both NATs
TwinPeekNextCall ==
  \E o \in NextFreePort(policy, NatState, clock, TRUE),
     t \in NextFreePort(policy, twin.nat, clock, TRUE) :
    /\ Counted
    /\ SetNat(o.st)
    /\ last' = Call("peekNext", None, clock, clock, FALSE, 0, "", o.raised, o.port)
    /\ twin' = [twin EXCEPT !.nat = t.st, !.raised = t.raised, !.ret = t.port,
                            !.ports = <<>>, !.differed = Differ]
    /\ UNCHANGED <<policy, clock, seen, fresh, sim, poolLen, strat>>

TwinNext == Advance \/ TwinAllocCall \/ TwinOccupyCall \/ TwinPeekNextCall

SpecTwin == TwinInit /\ [][TwinNext]_vars

\* ------------------------------------------ the sweep (NatSimulation.simulation)

\* NatSimulation.portScanInterval: milliseconds between two port scans
PortScanInterval == 10

\* TheirStragegy.delta = [900, 900]
TheirDelta == 900

\* I2JStragegy.startPos = [1025, 1025], and the source port its next() returns
I2JStartPos == 1025

\* largest simulationRounds (--rounds) the model follows
MaxRounds == 3

\* largest self.errors (--errors), the number of steps of a round
MaxSteps == 2

\* largest value a Poisson draw of new connections takes
MaxLag == 1

\* the values np.random.poisson(lmbd * t) can take: only 0 when lmbd is 0
Lags(lmbd) == IF lmbd = 0 THEN {0} ELSE 0..MaxLag

\* the strategies (--strategy) the sweep is run with
Strategies == {"their", "i2j"}

\* a --strategy value that getStrategy has no branch for
UnknownKey == "nosuch"

\* getStrategy(desc): the class of the instance it returns, by its key
GetStrategy(desc) ==
  IF desc = "i2j" THEN "i2j"
  ELSE IF desc = "ij" THEN "ij"
  ELSE IF desc = "fibo" THEN "fibo"
  ELSE IF desc = "their" THEN "their"
  ELSE IF desc = "poisson" THEN "poisson"
  ELSE IF desc = "binom" THEN "binom"
  ELSE IF desc = "simple" THEN "simple"
  ELSE "poisson"

\* the strategies whose rounds the model follows
Followed == Strategies \cup {"simple"}

\* the positive --lmbd the model follows, as a fraction: 1/40 = 0.025 per ms
LmbdRate == <<1, 40>>

\* 1 + sim.lmbd * sim.portScanInterval, as a fraction
SimpleGain(lmbd) ==
  IF lmbd = 0 THEN <<1, 1>>
  ELSE <<LmbdRate[2] + LmbdRate[1] * PortScanInterval, LmbdRate[2]>>

\* mutant: probRound overshoots the ceiling
ProbRoundLoose(num, den) ==
  IF num % den = 0 THEN {num \div den} ELSE {num \div den, (num \div den) + 2}

\* probRound(num / den): the number itself when it is whole, else its floor
\* or its ceiling, by a random draw
ProbRound(num, den) ==
  IF num % den = 0 THEN {num \div den} ELSE {num \div den, (num \div den) + 1}

\* SimpleStrategy.reset: the lists b it can build, cut to the round's steps
SimpleB(lmbd, steps) ==
  LET g == SimpleGain(lmbd)
  IN  {b \in [1..steps -> 0..(2 * steps)] :
         \A n \in 1..steps : b[n] \in ProbRound((n - 1) * g[1], g[2])}

\* strategy.reset(nats, self): SimpleStrategy alone draws a list
ResetB(strategy, lmbd, steps) ==
  IF strategy = "simple" THEN SimpleB(lmbd, steps) ELSE {<<>>}

\* mutant: I2JStragegy.silent gives party 1 a start of its own
SilentPosApart(strategy, lmbd) ==
  IF strategy = "simple"
  THEN {<<FirstPort + dA, FirstPort + dB>> : dA \in Lags(lmbd), dB \in Lags(lmbd)}
  ELSE {<<I2JStartPos, I2JStartPos + 1>>}

\* strategy.silent(curSilentA, curSilentB, lmbd): SimpleStrategy sets
\* startPos = int(lmbd * time + 1025), the silent period's expected number of
\* connections past the first port, which the model scales as it scales the
\* Poisson draws; I2JStragegy leaves its startPos alone
SilentPos(strategy, lmbd) ==
  IF strategy = "simple"
  THEN {<<FirstPort + dA, FirstPort + dB>> : dA \in Lags(lmbd), dB \in Lags(lmbd)}
  ELSE {<<I2JStartPos, I2JStartPos>>}

\* SimpleStrategy.next(party, step)
SimpleNext(startPos, b, party, step) ==
  LET at == IF step < Len(b) - 1 THEN step ELSE Len(b) - 1
  IN  <<FirstPort, startPos[party + 1] + b[at + 1]>>

\* mutant: party 1 of i2j takes party 0's small steps
StrategyNextOneStride(strategy, party, step) ==
  IF strategy = "their" THEN <<step, TheirDelta>>
  ELSE <<I2JStartPos, I2JStartPos + step>>

\* strategy.next(party, step): (source port, destination port)
StrategyNext(strategy, party, step) ==
  IF strategy = "their" THEN <<step, TheirDelta>>
  ELSE IF party = 0 THEN <<I2JStartPos, I2JStartPos + step>>
                    ELSE <<I2JStartPos, I2JStartPos + 2 * step>>

\* toAdd = (curA, dstA) if party==0 else (dstA, curA)
ToAdd(party, curA, dstA) == IF party = 0 THEN <<curA, dstA>> ELSE <<dstA, curA>>

\* mutant: the new tuple is looked up in the scanning party's own set
HitOwn(party, toAdd, scanA) == toAdd \in scanA[party + 1]

\* toAdd in scanA[party ^ 0x1]
Hit(party, toAdd, scanA) == toAdd \in scanA[2 - party]

\* mutant: no sweep stops a round at its first match
StopNever(rounds) == FALSE

\* stopOnFirstMatch = self.simulationRounds != 1
StopOnFirstMatch(rounds) == rounds # 1

\* sn == self.simulationRoundsFast and 2.0*successCnt < self.simulationRoundsFast
StopEarly(sn, successCnt, roundsFast) == sn = roundsFast /\ 2 * successCnt < roundsFast

\* mutant: no intersection is ever found
ResNone(scanA) == {}

\* res = list(scanA[0].intersection(scanA[1]))
Res(scanA) == scanA[1] \cap scanA[2]

\* res.sort(key=lambda tup: min(tup[0], tup[1])); res[0]: a pair with the least key
MinOf(tup) == IF tup[1] < tup[2] THEN tup[1] ELSE tup[2]

FirstOf(res) == {r \in res : \A x \in res : MinOf(r) <= MinOf(x)}

\* simulation() before its first round, on the two NATs main() has initialised
StartSim(desc, rounds, roundsFast, errors, lmbd) ==
  [pc |-> "loop", desc |-> desc, strategy |-> GetStrategy(desc),
   b |-> <<>>, startPos |-> <<I2JStartPos, I2JStartPos>>,
   silentK |-> <<0, 0>>, lags |-> <<<<>>, <<>> >>, hit |-> FALSE, hitDone |-> FALSE,
   rounds |-> rounds, roundsFast |-> roundsFast,
   errors |-> errors, lmbd |-> lmbd, sn |-> 0, successCnt |-> 0, successAcc |-> <<0, 0>>,
   realRounds |-> rounds, nats |-> <<InitNat, InitNat>>,
   i |-> 0, party |-> 0, scanA |-> <<{}, {}>>, mapA |-> <<EmptyDict, EmptyDict>>,
   stepMap |-> <<<<>>, <<>> >>, foundSomething |-> FALSE, res |-> {},
   exhausted |-> FALSE, executed |-> 0, matched |-> 0]

\* ns.simulation(natA, natB, strategies[0]) is entered; simulationRoundsFast
\* (100 in the program) is scaled to the rounds the model follows
SimSetup(pl, descs, rounds, steps, lmbds) ==
  /\ policy = "Incremental"
  /\ allocations = InitNat.allocations
  /\ allocatedPorts = InitNat.allocatedPorts
  /\ expireHeap = InitNat.expireHeap
  /\ lastPort = InitNat.lastPort
  /\ clock = 0
  /\ last = Call("init", None, 0, 0, FALSE, 0, "", FALSE, 0)
  /\ calls = 0
  /\ seen = 0
  /\ fresh = NoFresh
  /\ poolLen = pl
  /\ twin = NoTwin
  /\ strat = NoStrat
  /\ \E desc \in descs, r \in rounds, roundsFast \in 0..MaxRounds,
        errors \in steps, lmbd \in lmbds :
       sim = StartSim(desc, r, roundsFast, errors, lmbd)

SimInit ==
  SimSetup(NarrowPool, Strategies \cup {UnknownKey}, 1..MaxRounds, 1..MaxSteps, {0, 1})

notSim == <<allocations, allocatedPorts, expireHeap, lastPort, policy, clock, last,
            calls, seen, fresh, poolLen, twin, strat>>

\* PoolExhausted leaves simulation(): nothing in it catches the exception
Raised(nats) == [sim EXCEPT !.pc = "raised", !.exhausted = TRUE, !.nats = nats]

\* head of the for loop over rounds, up to the call of simulationCore:
\* reset both NATs, let the silent period's connections occupy ports
RoundStart ==
  /\ sim.pc = "loop"
  /\ sim.strategy \in Followed
  /\ \E kA \in Lags(sim.lmbd), kB \in Lags(sim.lmbd),
        b \in ResetB(sim.strategy, sim.lmbd, sim.errors),
        startPos \in SilentPos(sim.strategy, sim.lmbd) :
     LET natA == ResetNat(sim.nats[1], "Incremental")
         natB == ResetNat(sim.nats[2], "Incremental")
     IN  \E oA \in Occupy("Incremental", natA, kA, 0) :
           IF oA.raised THEN sim' = Raised(<<oA.st, natB>>)
           ELSE \E oB \in Occupy("Incremental", natB, kB, 0) :
                  IF oB.raised THEN sim' = Raised(<<oA.st, oB.st>>)
                  ELSE sim' = [sim EXCEPT !.pc = "core",
                                          !.nats = <<oA.st, oB.st>>,
                                          !.i = 0, !.party = 0,
                                          !.scanA = <<{}, {}>>,
                                          !.mapA = <<EmptyDict, EmptyDict>>,
                                          !.stepMap = <<<<>>, <<>> >>,
                                          !.foundSomething = FALSE,
                                          !.b = b, !.startPos = startPos,
                                          !.silentK = <<kA, kB>>,
                                          !.lags = <<<<>>, <<>> >>,
                                          !.hit = FALSE, !.hitDone = FALSE,
                                          !.executed = @ + 1]
  /\ UNCHANGED notSim

\* mutant: the step's new connections are let in before the scan's own alloc()
ScanOccupyFirst(nat, q, curLag, now, housekeeping) ==
  UNION {IF o.raised THEN {[raised |-> TRUE, ret |-> -1, st |-> o.st]}
         ELSE {[raised |-> a.raised, ret |-> a.ret, st |-> a.st] :
                 a \in Alloc("Incremental", o.st, q, now, None, FALSE, housekeeping)}
         : o \in Occupy("Incremental", nat, curLag, now)}

\* mutant: the step's new connections never reach the NAT
ScanNoNoise(nat, q, curLag, now, housekeeping) ==
  {[raised |-> a.raised, ret |-> a.ret, st |-> a.st] :
     a \in Alloc("Incremental", nat, q, now, None, FALSE, housekeeping)}

\* curA = nats[party].alloc(party, nextA[0], party ^ 0x1, dstA, i*portScanInterval)
\* and then nats[party].occupy(curLag, i*portScanInterval): the outcomes
Scan(nat, q, curLag, now, housekeeping) ==
  UNION {IF a.raised THEN {[raised |-> TRUE, ret |-> -1, st |-> a.st]}
         ELSE {[raised |-> o.raised, ret |-> a.ret, st |-> o.st] :
                 o \in Occupy("Incremental", a.st, curLag, now)}
         : a \in Alloc("Incremental", nat, q, now, None, FALSE, housekeeping)}

\* simulationCore: one party's scan of step i (the body of 'for party in [0,1]')
\* and the loop's bookkeeping after it.  The step's Poisson sample
\* natSamples[party][i] is drawn when it is used.  Beside the program's
\* variables the round keeps its noise counts (lags), whether a scan has found
\* its tuple in the other party's set (hit: the test of line 1464 without the
\* stopOnFirstMatch flag), and whether it had by the end of a step (hitDone:
\* where the break of line 1466 comes when the flag is set).
PartyStep ==
  /\ sim.pc = "core"
  /\ LET p     == sim.party
         nextA == IF sim.strategy = "simple"
                  THEN SimpleNext(sim.startPos, sim.b, p, sim.i)
                  ELSE StrategyNext(sim.strategy, p, sim.i)
         dstA  == nextA[2]
         now   == sim.i * PortScanInterval
         q     == Quartet(p, nextA[1], 1 - p, dstA)
     IN  \E curLag \in Lags(sim.lmbd), housekeeping \in BOOLEAN :
         \E o \in Scan(sim.nats[p + 1], q, curLag, now, housekeeping) :
                  IF o.raised THEN sim' = Raised([sim.nats EXCEPT ![p + 1] = o.st])
                  ELSE LET curA  == o.ret
                           toAdd == ToAdd(p, curA, dstA)
                           hit   == sim.hit \/ Hit(p, toAdd, sim.scanA)
                           found == \/ sim.foundSomething
                                    \/ /\ StopOnFirstMatch(sim.rounds)
                                       /\ Hit(p, toAdd, sim.scanA)
                           leave == p = 1 /\ (found \/ sim.i + 1 = sim.errors)
                       IN  sim' = [sim EXCEPT
                                     !.nats[p + 1] = o.st,
                                     !.scanA[p + 1] = @ \cup {toAdd},
                                     !.mapA[p + 1] = Put(@, curA, sim.i),
                                     !.stepMap[p + 1] = Append(@, <<curA, dstA>>),
                                     !.lags[p + 1] = Append(@, curLag),
                                     !.foundSomething = found,
                                     !.hit = hit,
                                     !.hitDone = IF p = 1 THEN hit ELSE @,
                                     !.party = 1 - p,
                                     !.i = IF p = 1 /\ ~leave THEN @ + 1 ELSE @,
                                     !.pc = IF leave THEN "coreEnd" ELSE "core"]
  /\ UNCHANGED notSim

\* the end of simulationCore (res = intersection of the two scan sets) and the
\* rest of the round in simulation(): early stop, or count the round
RoundEnd ==
  /\ sim.pc = "coreEnd"
  /\ LET res   == Res(sim.scanA)
         after == IF sim.sn + 1 = sim.rounds THEN "done" ELSE "loop"
         seenM == IF res # {} THEN sim.matched + 1 ELSE sim.matched
     IN  IF StopEarly(sim.sn, sim.successCnt, sim.roundsFast)
         THEN sim' = [sim EXCEPT !.pc = "done", !.res = res, !.matched = seenM,
                                 !.realRounds = sim.sn + 1]
         ELSE IF res = {}
         THEN sim' = [sim EXCEPT !.pc = after, !.res = res, !.sn = @ + 1]
         ELSE \E r \in FirstOf(res) :
                sim' = [sim EXCEPT !.pc = after, !.res = res, !.matched = seenM,
                                   !.sn = @ + 1,
                                   !.successCnt = @ + 1,
                                   !.successAcc = <<@[1] + sim.mapA[1][r[1]],
                                                    @[2] + sim.mapA[2][r[2]]>>]
  /\ UNCHANGED notSim

SimNext == RoundStart \/ PartyStep \/ RoundEnd

SpecSim == SimInit /\ [][SimNext]_vars

\* the sweep as a running program: simulation() is one thread with no waits,
\* so a step that can be taken is taken
SpecSimLive == SimInit /\ [][SimNext]_vars /\ WF_vars(SimNext)

\* the sweep with I2JStragegy and no new connections (lmbd 0), on pools that
\* hold the ports of four steps and with that many steps or more
ScanInit ==
  SimSetup(ScanPool, {"i2j"}, 1..MaxRounds, 4..ScanPool, {0})

SpecScan == ScanInit /\ [][SimNext]_vars

\* the sweep with SimpleStrategy, on pools that hold its guesses, for rounds of
\* up to one step more
SimpleInit ==
  SimSetup(WidePool, {"simple"}, 1..(MaxRounds - 1), 1..(MaxSteps + 1), {0, 1})

SpecSimple == SimpleInit /\ [][SimNext]_vars

\* ------------------------------------------------ the strategies on their own

\* largest value a draw of np.random.poisson takes in genPart
MaxDraw == 1

\* iterations of genPart's loop over the steps (3001 in the program)
GenSteps == 2

\* rows of FiboStrategy.init's outer loop (20 in the program)
FiboRows == 5

\* the strategy classes followed here
StratKinds == {"their", "fibo", "simple", "poisson"}

\* the steps next() is called with: those of a round with errors = StratSteps
StratSteps == MaxSteps + 4

\* SimpleStrategy.ln, the length of the list reset() builds (1000 in the
\* program, where errors is an option that defaults to 1000)
SimpleLn == StratSteps - 2

\* int(lmbd * time)
IntLmbdTime(lmbd, time) == IF lmbd = 0 THEN 0 ELSE (LmbdRate[1] * time) \div LmbdRate[2]

\* the silent period lengths passed to silent(): none, and one in which a
\* connection is expected at the positive rate
SilentTimes == {0, LmbdRate[2]}

\* fibGenerator: 0, 1, 1, 2, 3, 5, ...
RECURSIVE Fib(_)
Fib(n) == IF n = 0 THEN 0 ELSE IF n = 1 THEN 1 ELSE Fib(n - 1) + Fib(n - 2)

\* FiboStrategy.init: for i in range(1, ...): for j in range(fibn[i-1]):
\* b.append(fibn[i+1] + j), rows 1..rows
RECURSIVE FiboB(_)
FiboB(rows) ==
  IF rows = 0 THEN <<>>
  ELSE FiboB(rows - 1) \o [j \in 1..Fib(rows - 1) |-> Fib(rows + 1) + j - 1]

\* PoissonStrategy.genPart: a draw is appended unless it was drawn before
RECURSIVE GenPartFrom(_, _, _)
GenPartFrom(draws, b, seenX) ==
  IF draws = <<>> THEN b
  ELSE IF Head(draws) \in seenX THEN GenPartFrom(Tail(draws), b, seenX)
       ELSE GenPartFrom(Tail(draws), Append(b, Head(draws)), seenX \cup {Head(draws)})

GenPart(draws) == GenPartFrom(draws, <<>>, {})

\* PoissonStrategy.gen: self.b = [self.genPart(0), self.genPart(1)]
Gen ==
  {<<GenPart(d0), GenPart(d1)>> : d0 \in [1..GenSteps -> 0..MaxDraw],
                                   d1 \in [1..GenSteps -> 0..MaxDraw]}

\* an instance after getStrategy() and init(None): the class attributes, and
\* for PoissonStrategy the lists init's gen() drew
Made(kind) ==
  IF kind = "their"
  THEN {[startPos |-> <<0, 0>>, delta |-> <<TheirDelta, TheirDelta>>, b |-> <<>>,
         silRet |-> None, out |-> None]}
  ELSE IF kind = "fibo"
  THEN {[startPos |-> <<0, 0>>, delta |-> None, b |-> FiboB(FiboRows),
         silRet |-> None, out |-> None]}
  ELSE IF kind = "simple"
  THEN {[startPos |-> <<FirstPort, FirstPort>>, delta |-> None, b |-> <<>>,
         silRet |-> None, out |-> None]}
  ELSE {[startPos |-> <<FirstPort, FirstPort>>, delta |-> None, b |-> g,
         silRet |-> None, out |-> None] : g \in Gen}

\* SimpleStrategy.reset: the lists it can build at either rate
SimpleLists == [lmbd \in {0, 1} |-> SimpleB(lmbd, SimpleLn)]

\* reset(nats, sim): the lists b it can leave.  TheirStragegy and FiboStrategy
\* inherit Strategy.reset, which calls init(); FiboStrategy.init appends the
\* rows once more to the list, past the steps followed here
ResetDraws(kind, inst, lmbd) ==
  IF kind = "simple" THEN SimpleLists[lmbd]
  ELSE IF kind = "poisson" THEN Gen
  ELSE {inst.b}

\* mutant: silent() sets startPos from its arguments, as the line commented
\* out in FiboStrategy.silent would
SilentOnFiboMoves(kind, inst, time1, time2, lmbd, g) ==
  LET sp == <<IntLmbdTime(lmbd, time1), IntLmbdTime(lmbd, time2)>>
  IN  [inst EXCEPT !.startPos = sp, !.silRet = sp]

\* silent(time1, time2, lmbd) on an instance; g is what gen() draws in
\* PoissonStrategy.silent
SilentOn(kind, inst, time1, time2, lmbd, g) ==
  IF kind = "their"
  THEN [inst EXCEPT !.startPos = inst.delta, !.silRet = inst.delta]
  ELSE IF kind = "fibo"
  THEN [inst EXCEPT !.silRet = inst.startPos]
  ELSE LET sp == <<FirstPort + IntLmbdTime(lmbd, time1), FirstPort + IntLmbdTime(lmbd, time2)>>
       IN  IF kind = "simple"
           THEN [inst EXCEPT !.startPos = sp, !.silRet = sp]
           ELSE [inst EXCEPT !.startPos = sp, !.silRet = sp, !.b = g]

\* next(party, step) on an instance
NextOn(kind, inst, party, step) ==
  IF kind = "their" THEN <<step, inst.delta[party + 1]>>
  ELSE IF kind = "fibo"
  THEN IF party = 0 THEN <<0, inst.startPos[party + 1] + inst.b[step + 1]>>
                    ELSE <<0, inst.startPos[party + 1] + 2 * inst.b[step + 1]>>
  ELSE IF kind = "simple" THEN SimpleNext(inst.startPos, inst.b, party, step)
  ELSE LET bp == inst.b[party + 1]
           at == IF step < Len(bp) - 1 THEN step ELSE Len(bp) - 1
       IN  <<FirstPort, inst.startPos[party + 1] + bp[at + 1]>>

notStrat == <<allocations, allocatedPorts, expireHeap, lastPort, policy, clock, last,
              calls, seen, fresh, sim, poolLen, twin>>

\* two instances of one strategy class, x and y, after init(None); the sweep's
\* lmbd is positive for PoissonStrategy, whose coe() has no value at 0
StratSetup(kinds) ==
  /\ policy = "Incremental"
  /\ allocations = InitNat.allocations
  /\ allocatedPorts = InitNat.allocatedPorts
  /\ expireHeap = InitNat.expireHeap
  /\ lastPort = InitNat.lastPort
  /\ clock = 0
  /\ last = Call("init", None, 0, 0, FALSE, 0, "", FALSE, 0)
  /\ calls = 0
  /\ seen = 0
  /\ fresh = NoFresh
  /\ sim = NoSim
  /\ poolLen = NarrowPool
  /\ twin = NoTwin
  /\ \E kind \in kinds, lmbd \in {0, 1} :
     \E inst \in Made(kind) :
       /\ kind = "poisson" => lmbd = 1
       /\ strat = [on |-> TRUE, kind |-> kind, lmbd |-> lmbd, pc |-> "made",
                   x |-> inst, y |-> inst, args |-> None, op |-> "init",
                   party |-> 0, step |-> 0]

\* the strategies that draw nothing, or one list per round
StratInit == StratSetup(StratKinds \ {"poisson"})

\* strategy.reset(nats, self) at the head of the round, the same draws on both
StratReset ==
  /\ strat.on
  /\ strat.pc = "made"
  /\ \E b \in ResetDraws(strat.kind, strat.x, strat.lmbd) :
       strat' = [strat EXCEPT !.pc = "reset", !.op = "reset",
                              !.x.b = b, !.y.b = b,
                              !.x.out = None, !.y.out = None,
                              !.x.silRet = None, !.y.silRet = None,
                              !.args = None]
  /\ UNCHANGED notStrat

\* strategy.silent(time1, time2, lmbd), each instance with arguments of its own
StratSilent ==
  /\ strat.on
  /\ strat.pc = "reset"
  /\ \E tx1 \in SilentTimes, tx2 \in SilentTimes, ty1 \in SilentTimes, ty2 \in SilentTimes,
        lx \in {0, 1}, ly \in {0, 1}, g \in (IF strat.kind = "poisson" THEN Gen ELSE {None}) :
       /\ strat.kind = "poisson" => (lx = 1 /\ ly = 1)
       /\ strat' = [strat EXCEPT
                      !.pc = "silent", !.op = "silent",
                      !.x = SilentOn(strat.kind, @, tx1, tx2, lx, g),
                      !.y = SilentOn(strat.kind, @, ty1, ty2, ly, g),
                      !.args = << <<tx1, tx2, lx>>, <<ty1, ty2, ly>> >>]
  /\ UNCHANGED notStrat

\* strategies[party].next(party, step), the same call on both instances
StratNextCall ==
  /\ strat.on
  /\ strat.pc = "silent"
  /\ \E party \in {0, 1}, step \in 0..(StratSteps - 1) :
       strat' = [strat EXCEPT !.op = "next", !.party = party, !.step = step,
                              !.x.out = NextOn(strat.kind, strat.x, party, step),
                              !.y.out = NextOn(strat.kind, strat.y, party, step)]
  /\ UNCHANGED notStrat

StratStep == StratReset \/ StratSilent \/ StratNextCall

\* one round of a strategy: reset(), silent(), then next() at any step
SpecStrat == StratInit /\ [][StratStep]_vars

\* the sample-path strategy, whose lists are drawn anew by every gen()
PoissonInit == StratSetup({"poisson"})

SpecPoisson == PoissonInit /\ [][StratStep]_vars

\* ------------------------------------------------------------- properties

\* a step that is a call of method op
CallStep(op) == calls' = calls + 1 /\ last'.op = op

\* a record last accessed at lastAccess is unexpired at now
Live(lastAccess, now) == lastAccess + Timeout >= now

\* every port of the pool holds a record that is unexpired at now
AllLive(ports, now) == \A p \in Pool : p \in DOMAIN ports /\ Live(ports[p][2], now)

\* position of a port in the pool
PoolIndex(port) == CHOOSE i \in DOMAIN pool : pool[i] = port

\* C1: alloc() of a quartet that is mapped and unexpired at now returns the
\* port mapped to it, sets that record's lastAccessTime to lastSeen and
\* changes nothing else: not the cursor, not the heap, no other record or
\* table entry.
C1_ReallocKeepsPort ==
  [][(/\ CallStep("alloc")
      /\ last'.q \in DOMAIN allocations
      /\ Live(allocatedPorts[allocations[last'.q]][2], last'.now))
     => /\ ~last'.raised
        /\ last'.ret = allocations[last'.q]
        /\ allocatedPorts' = [allocatedPorts EXCEPT ![allocations[last'.q]] =
                                                     <<last'.q, last'.lastSeen>>]
        /\ allocations' = allocations
        /\ expireHeap' = expireHeap
        /\ lastPort' = lastPort]_vars

\* a re-allocation has moved a record's access time past its heap entry's
C1_Witness ==
  /\ last.op = "alloc" /\ last.path = "refresh"
  /\ allocatedPorts[last.ret] = <<last.q, last.lastSeen>>
  /\ \E i \in 1..Len(expireHeap) :
       /\ expireHeap[i][2] = last.ret
       /\ expireHeap[i][3] = last.q
       /\ expireHeap[i][1] < last.lastSeen

\* C2: on a fresh Incremental NAT, allocations of distinct quartets at
\* strictly increasing timestamps within the timeout yield pairwise distinct
\* ports of the pool, each one pool position after the previous one, wrapping
\* at the end of the pool.
C2_FreshRoundRobin ==
  /\ \A i \in 1..Len(fresh.ports) : fresh.ports[i] \in Pool
  /\ \A i, j \in 1..Len(fresh.ports) : i # j => fresh.ports[i] # fresh.ports[j]
  /\ \A i \in 1..(Len(fresh.ports) - 1) :
       PoolIndex(fresh.ports[i + 1]) = (PoolIndex(fresh.ports[i]) + 1) % PoolLen

\* PoolLen allocations were made and the cursor has wrapped to the pool's start
C2_Witness ==
  /\ Len(fresh.ports) = PoolLen
  /\ fresh.ports[PoolLen] = pool[0]
  /\ Cardinality(DOMAIN allocations) = PoolLen

\* C3: when every port of the pool holds an unexpired record, alloc() of an
\* unmapped quartet with refreshOnly = false raises PoolExhausted.
C3_FullPoolRaises ==
  [][(/\ CallStep("alloc")
      /\ ~last'.refreshOnly
      /\ last'.q \notin DOMAIN allocations
      /\ AllLive(allocatedPorts, last'.now))
     => last'.raised]_vars

\* alloc() of an unmapped quartet has raised on a pool full of live records
C3_Witness ==
  /\ last.op = "alloc" /\ last.raised /\ ~last.refreshOnly
  /\ last.path = "new"
  /\ last.q \notin DOMAIN allocations
  /\ AllLive(allocatedPorts, last.now)

\* C4: on an Incremental NAT, alloc() of an unmapped quartet with
\* refreshOnly = false raises PoolExhausted if and only if every port holds a
\* record unexpired at now; otherwise it returns a port that was unallocated
\* or held an expired record.
C4_RaisesIffAllLive ==
  [][(/\ CallStep("alloc")
      /\ ~last'.refreshOnly
      /\ last'.q \notin DOMAIN allocations)
     => /\ last'.raised <=> AllLive(allocatedPorts, last'.now)
        /\ ~last'.raised =>
             /\ last'.ret \in Pool
             /\ \/ last'.ret \notin DOMAIN allocatedPorts
                \/ ~Live(allocatedPorts[last'.ret][2], last'.now)]_vars

\* C5: trulyFreePorts(now) returns the pool size minus the number of records
\* unexpired at now, and leaves no record expired at now in the records or in
\* the quartet table, records refreshed by a repeated alloc() included.
C5_TrulyFreeIsExact ==
  [][CallStep("trulyFreePorts")
     => /\ last'.ret = PoolLen - Cardinality({p \in DOMAIN allocatedPorts :
                                               Live(allocatedPorts[p][2], last'.now)})
        /\ \A p \in DOMAIN allocatedPorts' : Live(allocatedPorts'[p][2], last'.now)
        /\ \A q \in DOMAIN allocations' :
             Live(allocatedPorts'[allocations'[q]][2], last'.now)]_vars

\* C6: peekNext(now) leaves the quartet table, the port records, the expiry
\* heap and the cursor as they were, also when it probes expired records.
C6_PeekChangesNothing ==
  [][CallStep("peekNext") => UNCHANGED natVars]_vars

\* C7: on an Incremental NAT, an alloc() of an unmapped quartet
\* (refreshOnly = false) that directly follows peekNext(now) with the same
\* now returns the port peekNext returned, and raises PoolExhausted exactly
\* when peekNext did.
C7_AllocReturnsPeeked ==
  [][(/\ last.op = "peekNext"
      /\ CallStep("alloc")
      /\ last'.now = last.now
      /\ ~last'.refreshOnly
      /\ last'.q \notin DOMAIN allocations)
     => /\ last'.raised = last.raised
        /\ ~last.raised => last'.ret = last.ret]_vars

\* peekNext evicted the expired record of the port it returned, and the
\* alloc() that followed recorded the new flow on that port
C7_Witness ==
  /\ last.op = "alloc" /\ last.path = "new" /\ ~last.raised
  /\ last.peeked = <<FALSE, last.ret>>
  /\ allocatedPorts[last.ret] = <<last.q, last.lastSeen>>
  /\ \E i \in 1..Len(expireHeap) :
       expireHeap[i][2] = last.ret /\ ~Live(expireHeap[i][1], last.now)

\* C8: alloc() with refreshOnly = true of a quartet that is not in the table
\* returns -1 and leaves table, records, heap and cursor unchanged.
C8_RefreshOnlyMiss ==
  [][(/\ CallStep("alloc")
      /\ last'.refreshOnly
      /\ last'.q \notin DOMAIN allocations)
     => /\ ~last'.raised
        /\ last'.ret = -1
        /\ UNCHANGED natVars]_vars

\* a reply packet of an unknown flow arrived at a NAT that holds allocations
C8_Witness ==
  /\ last.op = "alloc" /\ last.refreshOnly /\ last.path = "refreshOnly"
  /\ last.ret = -1
  /\ last.q \notin DOMAIN allocations
  /\ DOMAIN allocations # {}
  /\ \E p \in DOMAIN allocatedPorts : allocatedPorts[p][1] = None

C10_TableAgreesWithRecords ==
  /\ \A q \in DOMAIN allocations :
       /\ allocations[q] \in DOMAIN allocatedPorts
       /\ allocatedPorts[allocations[q]][1] = q
  /\ \A p \in DOMAIN allocatedPorts :
       allocatedPorts[p][1] # None =>
         /\ allocatedPorts[p][1] \in DOMAIN allocations
         /\ allocations[allocatedPorts[p][1]] = p

\* an expired quartet was allocated again while the pool holds as many
\* flows as it has ports
C10_Witness ==
  /\ last.op = "alloc" /\ last.path = "expired-new" /\ ~last.raised
  /\ Cardinality(DOMAIN allocations) = PoolLen

\* the set the elements of a sequence make
Range(seq) == {seq[i] : i \in 1..Len(seq)}

\* C11: every port alloc() or occupy() newly assigns is a port of the pool
\* that held no record, or a record expired at now, when the call was made (a
\* port with an unexpired record is never given away); when every port holds
\* an unexpired record a call that needs a port raises PoolExhausted; and the
\* probe loop makes at most PoolLen + 1 probes.
C11_AssignedPortWasFree ==
  [][(CallStep("alloc") \/ CallStep("occupy"))
     => /\ \A p \in Range(last'.ports) :
             /\ p \in Pool
             /\ \/ p \notin DOMAIN allocatedPorts
                \/ ~Live(allocatedPorts[p][2], last'.now)
        /\ (/\ AllLive(allocatedPorts, last'.now)
            /\ \/ last'.op = "occupy" /\ last'.num >= 1
               \/ last'.op = "alloc" /\ last'.path = "new")
           => last'.raised /\ last'.ports = <<>>
        /\ \A o \in ProbeLoop(policy, NatState, last'.now, 0, None) :
             o.tries <= PoolLen + 1]_vars

\* occupy() has taken a port whose earlier record had expired
C11_Witness ==
  /\ last.op = "occupy" /\ ~last.raised /\ last.ports # <<>>
  /\ \E i \in 1..Len(expireHeap) :
       /\ expireHeap[i][2] = last.ports[1]
       /\ ~Live(expireHeap[i][1], last.now)

\* C12: occupy(n, now) that returns, made on a NAT none of whose records is
\* expired at now, adds exactly n records, all without a quartet and stamped
\* now, keeps every earlier record and the quartet table as they were, and
\* so lowers freePorts() by n.
C12_OccupyTakesExactlyN ==
  [][(/\ CallStep("occupy")
      /\ ~last'.raised
      /\ \A p \in DOMAIN allocatedPorts : Live(allocatedPorts[p][2], last'.now))
     => LET added == (DOMAIN allocatedPorts') \ (DOMAIN allocatedPorts)
        IN  /\ Cardinality(added) = last'.num
            /\ \A p \in added : allocatedPorts'[p] = <<None, last'.now>>
            /\ \A p \in DOMAIN allocatedPorts :
                 p \in DOMAIN allocatedPorts' /\ allocatedPorts'[p] = allocatedPorts[p]
            /\ allocations' = allocations
            /\ PoolLen - Cardinality(DOMAIN allocatedPorts')
                 = FreePorts(NatState) - last'.num]_vars

\* occupy() has added anonymous records next to a live flow of the table
C12_Witness ==
  /\ last.op = "occupy" /\ ~last.raised /\ last.num >= 1
  /\ Len(last.ports) = last.num
  /\ DOMAIN allocations # {}
  /\ \A p \in DOMAIN allocatedPorts : Live(allocatedPorts[p][2], last.now)
  /\ Len(expireHeap) = Cardinality(DOMAIN allocatedPorts)
  /\ FreePorts(NatState) = PoolLen - Cardinality(DOMAIN allocations) - last.num

\* C13: the cleanHeap(now) run by trulyFreePorts(now) removes a port's record
\* only if the heap held an entry with that port, the record's timestamp and
\* the record's quartet, and timestamp + timeout < now; every other record
\* stays as it was, the table loses exactly the quartets of the removed
\* records, and the heap loses a prefix of entries that are all expired.  A
\* record unexpired at now is therefore never removed.
C13_CleanHeapRemovesOnlyMatching ==
  [][CallStep("trulyFreePorts")
     => LET gone   == (DOMAIN allocatedPorts) \ (DOMAIN allocatedPorts')
            popped == Len(expireHeap) - Len(expireHeap')
        IN  /\ \A p \in gone :
                 /\ ~Live(allocatedPorts[p][2], last'.now)
                 /\ \E i \in 1..popped :
                      expireHeap[i] = <<allocatedPorts[p][2], p, allocatedPorts[p][1]>>
            /\ \A p \in DOMAIN allocatedPorts' :
                 p \in DOMAIN allocatedPorts /\ allocatedPorts'[p] = allocatedPorts[p]
            /\ \A p \in DOMAIN allocatedPorts :
                 Live(allocatedPorts[p][2], last'.now) => p \in DOMAIN allocatedPorts'
            /\ DOMAIN allocations' =
                 (DOMAIN allocations) \ {allocatedPorts[p][1] : p \in gone}
            /\ \A q \in DOMAIN allocations' : allocations'[q] = allocations[q]
            /\ popped >= 0
            /\ expireHeap' = SubSeq(expireHeap, popped + 1, Len(expireHeap))
            /\ \A i \in 1..popped : ~Live(expireHeap[i][1], last'.now)]_vars

\* cleanup has popped the stale heap entry of a refreshed flow and left the
\* flow's live record in place
C13_Witness ==
  /\ last.op = "trulyFreePorts"
  /\ \E q \in DOMAIN allocations :
       /\ Live(allocatedPorts[allocations[q]][2], last.now)
       /\ \A i \in 1..Len(expireHeap) : expireHeap[i][3] # q

\* the NAT record of the next state
NatStateNext == [allocations |-> allocations', allocatedPorts |-> allocatedPorts',
                 expireHeap |-> expireHeap', lastPort |-> lastPort']

\* C14: reset() leaves the NAT as init() leaves a new one: empty quartet
\* table, empty port records, empty heap, cursor at its initial position; so
\* whatever was done before, the allocations made next have the outcomes
\* they have on a new NAT.
C14_ResetIsFresh ==
  [][CallStep("reset")
     => /\ allocations' = EmptyDict
        /\ allocatedPorts' = EmptyDict
        /\ expireHeap' = <<>>
        /\ lastPort' = InitNat.lastPort
        /\ NatStateNext = InitNat
        /\ \A q \in Quartets, t \in Times :
             Alloc(policy, NatStateNext, q, t, None, FALSE, FALSE)
               = Alloc(policy, InitNat, q, t, None, FALSE, FALSE)
        /\ \A n \in 0..MaxOccupy, t \in Times :
             Occupy(policy, NatStateNext, n, t) = Occupy(policy, InitNat, n, t)]_vars

\* reset() was called on a NAT that held records and whose cursor had moved
C14_Witness ==
  /\ last.op = "reset"
  /\ last.num >= 1
  /\ last.ret # InitNat.lastPort
  /\ NatState = InitNat

\* some step i of party 0 and some step j of party 1 hit each other: the port
\* party 0's NAT allocated at i is the port party 1 aimed at in j, and the
\* port party 1's NAT allocated at j is the port party 0 aimed at in i
HasMatch(stepMap) ==
  \E i \in 1..Len(stepMap[1]), j \in 1..Len(stepMap[2]) :
    /\ stepMap[1][i][1] = stepMap[2][j][2]
    /\ stepMap[2][j][1] = stepMap[1][i][2]

C16_FixedDeltaMatchesAtOnce ==
  (sim.pc = "done" /\ sim.strategy = "their" /\ sim.lmbd = 0)
    => /\ sim.realRounds = sim.rounds
       /\ sim.successCnt = sim.realRounds
       /\ sim.matched = sim.executed
       /\ sim.successAcc = <<0, 0>>

\* C17: in a sweep of several rounds, a step in which alloc() or occupy()
\* raises PoolExhausted ends only the round: the sweep goes on with the next
\* round (or returns, after the last), the round is counted as attempted and
\* not as a success.
C17_ExhaustedRoundIsNonMatch ==
  [][(sim.pc \in {"loop", "core"} /\ sim.rounds >= 2 /\ sim'.exhausted)
     => /\ sim'.pc \in {"loop", "done"}
        /\ sim'.sn = sim.sn + 1
        /\ sim'.successCnt = sim.successCnt
        /\ sim'.realRounds = sim.realRounds]_vars

\* C18: with stopOnFirstMatch, once the two tuple sets intersect, the round
\* makes no further call on either NAT and records no further tuple.
C18_NoCallAfterMatch ==
  [][(/\ sim.pc = "core"
      /\ StopOnFirstMatch(sim.rounds)
      /\ sim.scanA[1] \cap sim.scanA[2] # {})
     => /\ sim'.nats = sim.nats
        /\ sim'.scanA = sim.scanA
        /\ sim'.stepMap = sim.stepMap]_vars

\* C19: the success probability a sweep returns, successCnt / realRounds, is
\* the number of rounds whose stepping ended in a match over the number of
\* rounds whose stepping was executed, also after an early stop.
C19_RatioIsMatchedOverExecuted ==
  sim.pc = "done" =>
    /\ sim.executed > 0 /\ sim.realRounds > 0
    /\ sim.successCnt * sim.executed = sim.matched * sim.realRounds

\* C20: with threshold F < R, when fewer than half of the F rounds
\* run before the check matched, the sweep stops without having run all R
\* rounds and divides by the number of rounds run, not by R.
C20_StopsBeforeAllRounds ==
  [][(/\ sim.pc = "coreEnd"
      /\ sim.sn = sim.roundsFast
      /\ sim.roundsFast < sim.rounds
      /\ 2 * sim.matched < sim.roundsFast)
     => /\ sim'.pc = "done"
        /\ sim'.executed < sim.rounds
        /\ sim'.realRounds = sim'.executed
        /\ sim'.realRounds # sim.rounds]_vars


\* ---------------------------------------------------------------- C21

\* the tuple party p recorded at step i of the round, read from stepMap
TupleAt(stepMap, p, i) ==
  IF p = 0 THEN stepMap[1][i + 1]
  ELSE <<stepMap[2][i + 1][2], stepMap[2][i + 1][1]>>

\* the scans of a round in the order they were made: <<party, step>>
Scans(stepMap) ==
  {<<p, i>> \in {0, 1} \X (0..MaxSteps + 1) : i < Len(stepMap[p + 1])}

ScanBefore(a, b) == a[2] < b[2] \/ (a[2] = b[2] /\ a[1] < b[1])

\* the scan recorded a tuple the other party had recorded before it
CompletesMatch(stepMap, e) ==
  \E d \in Scans(stepMap) :
    /\ d[1] # e[1]
    /\ ScanBefore(d, e)
    /\ TupleAt(stepMap, d[1], d[2]) = TupleAt(stepMap, e[1], e[2])

\* the scans that completed the round's first match (at most one)
FirstMatchScans(stepMap) ==
  {e \in Scans(stepMap) :
     /\ CompletesMatch(stepMap, e)
     /\ \A d \in Scans(stepMap) : CompletesMatch(stepMap, d) => ~ScanBefore(d, e)}

\* the first step at which party p recorded tuple t
FirstRecorded(stepMap, p, t) ==
  CHOOSE i \in 0..(Len(stepMap[p + 1]) - 1) :
    /\ TupleAt(stepMap, p, i) = t
    /\ \A j \in 0..(i - 1) : TupleAt(stepMap, p, j) # t

\* C21: when a round is counted as a success, the step index added to
\* successAcc for each party is the step at which that party first recorded
\* the tuple of the round's first match, also when a pair is repeated at a
\* later step or when the intersection holds more than one tuple.
C21_AccumulatesFirstMatchStep ==
  [][(sim.pc = "coreEnd" /\ sim'.successCnt = sim.successCnt + 1)
       => \A e \in FirstMatchScans(sim.stepMap) :
            LET t == TupleAt(sim.stepMap, e[1], e[2])
            IN  /\ sim'.successAcc[1] - sim.successAcc[1] = FirstRecorded(sim.stepMap, 0, t)
                /\ sim'.successAcc[2] - sim.successAcc[2] = FirstRecorded(sim.stepMap, 1, t)]_vars

\* a round was counted in which a party recorded the matched tuple twice
C21_Witness ==
  /\ sim.pc \in {"loop", "done"}
  /\ sim.successCnt > 0
  /\ \E i \in 1..Len(sim.stepMap[1]), j \in 1..Len(sim.stepMap[1]) :
       /\ i < j
       /\ sim.stepMap[1][i] = sim.stepMap[1][j]
       /\ sim.stepMap[1][i] \in sim.res

\* ---------------------------------------------------------------- C22

\* C22: within a step party 0's alloc() and occupy() are complete before
\* party 1's alloc(); a party's alloc() of the step comes before the occupy()
\* of the step's noise count; both act on that party's own NAT at simulated
\* time step * scanInterval; the other party's NAT is left unchanged.
C22_ScanOrder ==
  [][(sim.pc = "core" /\ sim'.pc # "raised")
       => LET p     == sim.party
              pre   == sim.nats[p + 1]
              post  == sim'.nats[p + 1]
              now   == sim.i * PortScanInterval
              curA  == sim'.stepMap[p + 1][Len(sim'.stepMap[p + 1])][1]
              n     == sim'.lags[p + 1][Len(sim'.lags[p + 1])]
              added == DOMAIN post.allocatedPorts \ DOMAIN pre.allocatedPorts
          IN  /\ sim'.nats[2 - p] = sim.nats[2 - p]
              /\ Len(sim.stepMap[1]) = sim.i + p
              /\ Len(sim.lags[1]) = sim.i + p
              /\ Len(sim.stepMap[2]) = sim.i
              /\ p = 0 => (sim'.party = 1 /\ sim'.i = sim.i /\ sim'.pc = "core")
              /\ \E pk \in NextFreePort("Incremental", pre, now, TRUE) :
                   ~pk.raised /\ pk.port = curA
              /\ Cardinality(added) = 1 + n
              /\ \A port \in added :
                   /\ post.allocatedPorts[port][2] = now
                   /\ post.allocatedPorts[port][1] = None <=> port # curA]_vars

\* party 1 is about to scan a step in which party 0 has made its alloc() and
\* has let new connections in after it
C22_Witness ==
  /\ sim.pc = "core"
  /\ sim.party = 1
  /\ Len(sim.stepMap[1]) = sim.i + 1
  /\ sim.lags[1][sim.i + 1] > 0
  /\ LET rec == sim.nats[1].allocatedPorts
         now == sim.i * PortScanInterval
     IN  /\ rec[sim.stepMap[1][sim.i + 1][1]][2] = now
         /\ rec[sim.stepMap[1][sim.i + 1][1]][1] # None
         /\ \E port \in DOMAIN rec : rec[port] = <<None, now>>

\* ---------------------------------------------------------------- C23

\* the keys getStrategy has a branch for
StrategyKeys == {"poisson", "binom", "simple", "fibo", "ij", "i2j", "their"}

\* C23: getStrategy called with a key outside the registry's keys fails before
\* any round begins: no strategy instance comes back from it and simulation()
\* is not entered with one.
C23_UnknownKeyRejected ==
  (sim.pc # "off" /\ sim.desc \notin StrategyKeys)
    => (sim.strategy \notin StrategyKeys /\ sim.pc # "loop")

\* the sweep was set up with a key getStrategy has no branch for
C23_Witness ==
  /\ sim.pc = "loop"
  /\ sim.desc = UnknownKey
  /\ sim.desc \notin StrategyKeys
  /\ sim.strategy = "poisson"

\* ---------------------------------------------------------------- C24

\* C24: when alloc() or occupy() fails with PoolExhausted, the quartet table,
\* the port records, the expiry heap and the cursor are exactly as they were
\* before the call: no record is evicted and none of occupy()'s anonymous
\* allocations remains.
C24_FailureLeavesNatUntouched ==
  [][((CallStep("alloc") \/ CallStep("occupy")) /\ last'.raised)
       => UNCHANGED natVars]_vars

\* occupy() failed after it had made some of its allocations
C24_Witness ==
  /\ last.op = "occupy"
  /\ last.raised
  /\ last.num > 1
  /\ Len(last.ports) > 0

\* ---------------------------------------------------------------- C25

\* C25: with timeNow never decreasing, an Incremental NAT on which any of the
\* new allocations were followed by the housekeeping pass returns, call by
\* call, the results (ports, -1, PoolExhausted) of an Incremental NAT given
\* the same alloc(), occupy() and peekNext() calls with no housekeeping pass.
C25_HousekeepingUnobservable ==
  twin.on => /\ twin.raised = last.raised
             /\ twin.ret = last.ret
             /\ twin.ports = last.ports

\* a port was allocated anew by a call made when the housekeeping pass had left
\* the two NATs with different port records
C25_Witness ==
  /\ twin.on
  /\ twin.differed
  /\ last.op = "alloc"
  /\ last.path \in {"new", "expired-new"}
  /\ ~last.raised

\* ---------------------------------------------------------------- C26

\* C26: on an Incremental NAT every successful new allocation, an alloc() of
\* an unmapped quartet and each single anonymous allocation inside occupy(),
\* advances the cursor by exactly one pool position, wrapping at the pool's end.
C26_CursorAdvancesByOne ==
  [][/\ (CallStep("alloc") /\ ~last'.raised /\ last'.path \in {"new", "expired-new"})
          => lastPort' = (lastPort + 1) % PoolLen
     /\ (CallStep("occupy") /\ ~last'.raised)
          => lastPort' = (lastPort + last'.num) % PoolLen]_vars

\* occupy() took two ports that lie two pool positions apart: its second
\* allocation passed over a port in use
C26_Witness ==
  /\ last.op = "occupy"
  /\ ~last.raised
  /\ Len(last.ports) = 2
  /\ PoolIndex(last.ports[2]) = (PoolIndex(last.ports[1]) + 2) % PoolLen

\* ---------------------------------------------------------------- C27

\* a round with stopOnFirstMatch disabled has ended, by return or by exception
NoStopRoundOver == sim.rounds = 1 /\ sim.executed = 1 /\ sim.pc \in {"coreEnd", "raised"}

\* the same scans with stopOnFirstMatch enabled: the round breaks off at the
\* end of the first step in which a scan found its tuple in the other party's
\* set, and then returns a non-empty intersection
StopRunMatches == sim.hitDone

\* the round with stopOnFirstMatch disabled returns a non-empty intersection
NoStopRunMatches == sim.pc = "coreEnd" /\ sim.scanA[1] \cap sim.scanA[2] # {}

C28_MatchOnlyInLastStep ==
  /\ (sim.rounds # 1 /\ sim.pc = "core" /\ sim.party = 0)
        => sim.scanA[1] \cap sim.scanA[2] = {}
  /\ (sim.rounds # 1 /\ sim.pc = "coreEnd")
        => \A t \in sim.scanA[1] \cap sim.scanA[2] :
             \E p \in {0, 1} : t = TupleAt(sim.stepMap, p, Len(sim.stepMap[p + 1]) - 1)

\* a round with stopOnFirstMatch enabled broke off with a match in its second step
C28_Witness ==
  /\ sim.rounds # 1
  /\ sim.pc = "coreEnd"
  /\ sim.scanA[1] \cap sim.scanA[2] # {}
  /\ Len(sim.stepMap[1]) = 2
  /\ sim.foundSomething

\* ---------------------------------------------------------------- C29

\* n_0 + ... + n_(i-1) of a party's noise counts
RECURSIVE NoiseBefore(_, _)
NoiseBefore(lags, i) == IF i = 0 THEN 0 ELSE lags[i] + NoiseBefore(lags, i - 1)

C30_I2JMatchesByStep3 ==
  (/\ sim.pc = "coreEnd"
   /\ sim.strategy = "i2j"
   /\ sim.errors >= 4
   /\ sim.silentK = <<0, 0>>
   /\ \A p \in {1, 2} : \A j \in 1..Len(sim.lags[p]) : sim.lags[p][j] = 0)
    => \E e \in FirstMatchScans(sim.stepMap) : e[2] <= 3

\* a noise-free i2j round ended with the match made by party 0's step 3 and
\* party 1's step 2
C30_Witness ==
  /\ sim.pc = "coreEnd"
  /\ sim.strategy = "i2j"
  /\ sim.errors >= 4
  /\ sim.silentK = <<0, 0>>
  /\ Len(sim.stepMap[1]) >= 4
  /\ TupleAt(sim.stepMap, 0, 3) = TupleAt(sim.stepMap, 1, 2)
  /\ TupleAt(sim.stepMap, 0, 3) \in sim.scanA[1] \cap sim.scanA[2]

\* ---------------------------------------------------------------- C31

\* C31: for the i2j strategy, after silent() has been called, next(0, s)
\* guesses start0 + s and next(1, s) guesses start1 + 2*s at every step s,
\* start0 and start1 being the start offsets silent() returned.
C31_I2JGuesses ==
  (sim.pc \in {"core", "coreEnd"} /\ sim.strategy = "i2j")
    => /\ \A s \in 0..(Len(sim.stepMap[1]) - 1) :
            sim.stepMap[1][s + 1][2] = sim.startPos[1] + s
       /\ \A s \in 0..(Len(sim.stepMap[2]) - 1) :
            sim.stepMap[2][s + 1][2] = sim.startPos[2] + 2 * s

\* both parties of an i2j round have made their guess of step 1
C31_Witness ==
  /\ sim.pc \in {"core", "coreEnd"}
  /\ sim.strategy = "i2j"
  /\ Len(sim.stepMap[2]) = 2
  /\ sim.stepMap[1][2][2] = sim.startPos[1] + 1
  /\ sim.stepMap[2][2][2] = sim.startPos[2] + 2

\* ---------------------------------------------------------------- C32

StrictlyIncreasing(seq) == \A i \in 1..(Len(seq) - 1) : seq[i] < seq[i + 1]

\* C32: after reset() and silent(), the Poisson strategy's stored offset
\* sequence of each party is strictly increasing, whatever the draws were.
C32_PoissonOffsetsIncrease ==
  (strat.on /\ strat.kind = "poisson" /\ strat.pc = "silent")
    => (StrictlyIncreasing(strat.x.b[1]) /\ StrictlyIncreasing(strat.x.b[2]))

\* silent() left a party with a list of two different offsets
C32_Witness ==
  /\ strat.on
  /\ strat.kind = "poisson"
  /\ strat.pc = "silent"
  /\ Len(strat.x.b[1]) = 2
  /\ strat.x.b[1][1] > strat.x.b[1][2]

\* ---------------------------------------------------------------- C33

\* C33: for the fixed-delta and the Fibonacci-skip strategies, what silent()
\* returns and what every later next(party, step) returns are the same for
\* any two choices of the arguments passed to silent().
C33_SilentArgsUnobservable ==
  (strat.on /\ strat.kind \in {"their", "fibo"} /\ strat.pc = "silent")
    => (strat.x.silRet = strat.y.silRet /\ strat.x.out = strat.y.out)

\* next() has answered two instances whose silent() got different periods
\* and a different rate estimate
C33_Witness ==
  /\ strat.on
  /\ strat.kind \in {"their", "fibo"}
  /\ strat.op = "next"
  /\ strat.step > 0
  /\ strat.args[1][1] # strat.args[2][1]
  /\ strat.args[1][2] # strat.args[2][2]
  /\ strat.args[1][3] # strat.args[2][3]
  /\ strat.x.out = strat.y.out

\* ---------------------------------------------------------------- C34

\* round(num / den) of a number that is not negative: halves go up
RoundOf(num, den) == (2 * num + den) \div (2 * den)

AbsDiff(a, b) == IF a < b THEN b - a ELSE a - b

\* what next() added to the party's start position
OffsetAdded == strat.x.out[2] - strat.x.startPos[strat.party + 1]

\* round(s * (1 + lmbd * T)) at the step of the call
ExpectedOffset ==
  RoundOf(strat.step * SimpleGain(strat.lmbd)[1], SimpleGain(strat.lmbd)[2])

SimpleNextDone == strat.on /\ strat.kind = "simple" /\ strat.op = "next"

\* C34: after reset() with rate lmbd and scan interval T, the offset the simple
\* strategy adds to the start position at every step s differs from
\* round(s * (1 + lmbd * T)) by at most 1, whatever the rounding draws.
C34_OffsetWithinOne ==
  SimpleNextDone => AbsDiff(OffsetAdded, ExpectedOffset) <= 1

\* C34 (amended): the same at every step below the length of the list reset()
\* built; from there on next() repeats the last entry.
C34_OffsetWithinOneInList ==
  (SimpleNextDone /\ strat.step < SimpleLn)
    => AbsDiff(OffsetAdded, ExpectedOffset) <= 1

\* a step inside the list at which the rounding draw went away from round()
C34_Witness ==
  /\ SimpleNextDone
  /\ strat.step < SimpleLn
  /\ strat.lmbd = 1
  /\ AbsDiff(OffsetAdded, ExpectedOffset) = 1

\* ---------------------------------------------------------------- C35

\* the stepping loop has executed at most errors steps for either party
StepsWithinErrors ==
  sim.pc \in {"core", "coreEnd", "raised"}
    => /\ sim.i < sim.errors
       /\ Len(sim.stepMap[1]) <= sim.errors
       /\ Len(sim.stepMap[2]) <= sim.errors

\* the sweep has started at most the configured number of rounds
RoundsWithinConfigured ==
  sim.pc # "off" => (sim.executed <= sim.rounds /\ sim.sn <= sim.rounds)

\* the round's stepping has ended and its result, a match or none, is at hand
RoundOutcome == sim.pc = "coreEnd"

\* C35: every round terminates: its stepping loop executes at most errors
\* steps and then ends in either a match or a no-match outcome, and the sweep
\* ends after at most the configured number of rounds.
C35_RoundsTerminateWithOutcome ==
  /\ [](StepsWithinErrors /\ RoundsWithinConfigured)
  /\ (sim.pc = "core") ~> RoundOutcome

\* the stepping loop of a round was left by the exception of a full pool
C35_Witness ==
  /\ sim.pc = "raised"
  /\ sim.executed >= 1
  /\ Len(sim.stepMap[1]) >= 1

====
